---- MODULE Spec2Model ----
(***************************************************************************)
(* Model of the Eclipse asset scripts:                                     *)
(*   scripts/gen_eclipse_fonts.py     packed 1bpp glyph atlas generator    *)
(*   scripts/convert_icons_to_bin.py  batch icon converter (raw RGB888)    *)
(* Byte strings are sequences over 0..255; Python's 0-based index i is     *)
(* element i+1 of the sequence.                                            *)
(***************************************************************************)
EXTENDS Integers, Sequences, FiniteSets, TLC

VARIABLES
    call,       \* SpecFn: the function being called and its arguments
    ret,        \* SpecFn: what the call returned (or that it raised)
    disk,       \* SpecIcons: the source files under SRC and SRC_ALT
    layouts,    \* SpecIcons: the ordered LAYOUTS table
    pos,        \* SpecIcons: index of the next source of the table
    dst_files,  \* SpecIcons: the files under DST, by name
    icons_pc,   \* SpecIcons: running, done (returned) or crashed (raised)
    raw_12,     \* SpecFonts: the bytes decoded from the hex input
    out_dir,    \* SpecFonts: the .data files written, by size
    scaled,     \* SpecFonts: what scale_1bpp_atlas last returned (line 149)
    fonts_pc    \* SpecFonts: the next file to write: <<index in FontOrder, "data" or "rs">>

vars == <<call, ret, disk, layouts, pos, dst_files, icons_pc, raw_12, out_dir, scaled, fonts_pc>>

fn_vars == <<call, ret>>
icons_vars == <<disk, layouts, pos, dst_files, icons_pc>>
fonts_vars == <<raw_12, out_dir, scaled, fonts_pc>>

(***************************************************************************)
(* Python primitives                                                       *)
(***************************************************************************)

\* The marker for "the call raised IndexError" where a pixel value is expected
\* (scale_1bpp_atlas passes no negative coordinate, so it never meets it).
IndexError == -1

Pow2(k) == 2 ^ k

\* (b >> k) & 1
BitOf(b, k) == (b \div Pow2(k)) % 2

\* b | (1 << k)
OrBit(b, k) == IF BitOf(b, k) = 1 THEN b ELSE b + Pow2(k)

\* data[i] for a Python index i: negative indices count from the end, and an
\* index outside -len..len-1 raises IndexError.
PyInRange(data, i) == i >= -Len(data) /\ i < Len(data)

PyPos(data, i) == IF i < 0 THEN i + Len(data) + 1 ELSE i + 1

\* bytearray(n) / b"\x00" * n, as a sequence.
Zeros(n) == [i \in 1..n |-> 0] \o <<>>

(***************************************************************************)
(* gen_eclipse_fonts.py                                                    *)
(***************************************************************************)

rows == 6

GlyphsPerRow == 16

TotalGlyphs == 96

byte_idx(bw, x, y) == y * ((bw + 7) \div 8) + x \div 8

get_pixel(data, bw, x, y) ==
    LET i == byte_idx(bw, x, y) IN
    IF i >= Len(data) THEN 0
    ELSE IF ~PyInRange(data, i) THEN IndexError
    ELSE IF BitOf(data[PyPos(data, i)], 7 - (x % 8)) = 1 THEN 1 ELSE 0

\* set_pixel raises exactly when it indexes buf outside its range.
set_pixel_raises(buf, bw, x, y, v) ==
    LET i == byte_idx(bw, x, y) IN
    i < Len(buf) /\ v # 0 /\ ~PyInRange(buf, i)

\* set_pixel with the bits of a byte numbered from the least significant one.
set_pixel_LsbFirst(buf, bw, x, y, v) ==
    LET i == byte_idx(bw, x, y) IN
    IF i < Len(buf) /\ v # 0 /\ PyInRange(buf, i)
    THEN [buf EXCEPT ![PyPos(buf, i)] = OrBit(@, x % 8)]
    ELSE buf

\* The buffer after set_pixel (unchanged when it raises).
set_pixel(buf, bw, x, y, v) ==
    LET i == byte_idx(bw, x, y) IN
    IF i < Len(buf) /\ v # 0 /\ PyInRange(buf, i)
    THEN [buf EXCEPT ![PyPos(buf, i)] = OrBit(@, 7 - (x % 8))]
    ELSE buf

\* ScalePixel sampling every glyph from the first column of the source grid.
ScalePixel_NoGlyphColumn(dst, a, gr, gc, dy, dx) ==
    LET sx == IF a.dw > 0 THEN (dx * a.sw) \div a.dw ELSE 0
        sy == IF a.dh > 0 THEN (dy * a.sh) \div a.dh ELSE 0
        gx == sx
        gy == gr * a.sh + sy
        p  == get_pixel(a.src, a.gpr * a.sw, gx, gy)
        ox == gc * a.dw + dx
        oy == gr * a.dh + dy
    IN  set_pixel(dst, a.gpr * a.dw, ox, oy, p)

\* ScalePixel with the source coordinates rounded up instead of down.
ScalePixel_RoundUp(dst, a, gr, gc, dy, dx) ==
    LET sx == IF a.dw > 0 THEN (dx * a.sw + a.dw - 1) \div a.dw ELSE 0
        sy == IF a.dh > 0 THEN (dy * a.sh + a.dh - 1) \div a.dh ELSE 0
        gx == gc * a.sw + sx
        gy == gr * a.sh + sy
        p  == get_pixel(a.src, a.gpr * a.sw, gx, gy)
        ox == gc * a.dw + dx
        oy == gr * a.dh + dy
    IN  set_pixel(dst, a.gpr * a.dw, ox, oy, p)

\* The four loops of scale_1bpp_atlas, innermost first. Each iteration's buffer
\* is evaluated (Len(d) >= 0 always holds) before the next iteration starts.
\* The body of the innermost loop: one destination pixel of glyph (gr, gc).
ScalePixel(dst, a, gr, gc, dy, dx) ==
    LET sx == IF a.dw > 0 THEN (dx * a.sw) \div a.dw ELSE 0
        sy == IF a.dh > 0 THEN (dy * a.sh) \div a.dh ELSE 0
        gx == gc * a.sw + sx
        gy == gr * a.sh + sy
        p  == get_pixel(a.src, a.gpr * a.sw, gx, gy)
        ox == gc * a.dw + dx
        oy == gr * a.dh + dy
    IN  set_pixel(dst, a.gpr * a.dw, ox, oy, p)

RECURSIVE ScaleDx(_, _, _, _, _, _)
ScaleDx(dst, a, gr, gc, dy, dx) ==
    IF dx >= a.dw THEN dst
    ELSE LET d == ScalePixel(dst, a, gr, gc, dy, dx)
         IN  IF Len(d) >= 0 THEN ScaleDx(d, a, gr, gc, dy, dx + 1) ELSE d

RECURSIVE ScaleDy(_, _, _, _, _)
ScaleDy(dst, a, gr, gc, dy) ==
    IF dy >= a.dh THEN dst
    ELSE LET d == ScaleDx(dst, a, gr, gc, dy, 0)
         IN  IF Len(d) >= 0 THEN ScaleDy(d, a, gr, gc, dy + 1) ELSE d

RECURSIVE ScaleGc(_, _, _, _)
ScaleGc(dst, a, gr, gc) ==
    IF gc >= a.gpr \/ gr * a.gpr + gc >= TotalGlyphs THEN dst
    ELSE LET d == ScaleDy(dst, a, gr, gc, 0)
         IN  IF Len(d) >= 0 THEN ScaleGc(d, a, gr, gc + 1) ELSE d

RECURSIVE ScaleGr(_, _, _)
ScaleGr(dst, a, gr) ==
    IF gr >= rows THEN dst
    ELSE LET d == ScaleGc(dst, a, gr, 0)
         IN  IF Len(d) >= 0 THEN ScaleGr(d, a, gr + 1) ELSE d

\* scale_1bpp_atlas sizing the destination rows by the source cell width.
scale_1bpp_atlas_SrcStride(src_data, src_glyph_w, src_glyph_h, dst_glyph_w, dst_glyph_h) ==
    LET a == [src |-> src_data, sw |-> src_glyph_w, sh |-> src_glyph_h,
              dw |-> dst_glyph_w, dh |-> dst_glyph_h, gpr |-> GlyphsPerRow]
        dst_atlas_w == a.gpr * src_glyph_w
        dst_atlas_h == rows * dst_glyph_h
        dst_bytes_per_row == (dst_atlas_w + 7) \div 8
    IN  ScaleGr(Zeros(dst_bytes_per_row * dst_atlas_h), a, 0)

scale_1bpp_atlas(src_data, src_glyph_w, src_glyph_h, dst_glyph_w, dst_glyph_h) ==
    LET a == [src |-> src_data, sw |-> src_glyph_w, sh |-> src_glyph_h,
              dw |-> dst_glyph_w, dh |-> dst_glyph_h, gpr |-> GlyphsPerRow]
        dst_atlas_w == a.gpr * dst_glyph_w
        dst_atlas_h == rows * dst_glyph_h
        dst_bytes_per_row == (dst_atlas_w + 7) \div 8
    IN  ScaleGr(Zeros(dst_bytes_per_row * dst_atlas_h), a, 0)

\* ensure_atlas_size that pads but does not truncate.
ensure_atlas_size_NoTruncate(data, expected_bytes) ==
    IF Len(data) >= expected_bytes
    THEN data
    ELSE data \o Zeros(expected_bytes - Len(data))

ensure_atlas_size(data, expected_bytes) ==
    IF Len(data) >= expected_bytes
    THEN SubSeq(data, 1, expected_bytes)
    ELSE data \o Zeros(expected_bytes - Len(data))

(***************************************************************************)
(* convert_icons_to_bin.py: to_rgb888                                      *)
(***************************************************************************)

BLACK_THRESH == 24

\* PixelRgb with the threshold compared by <= instead of <.
PixelRgb_ThreshInclusive(p, black_to_transparent) ==
    LET rgb == IF Len(p) = 4
               THEN IF p[4] < 128 THEN <<0, 0, 0>> ELSE <<p[1], p[2], p[3]>>
               ELSE p
    IN  IF black_to_transparent /\ rgb[1] <= BLACK_THRESH /\ rgb[2] <= BLACK_THRESH
                                /\ rgb[3] <= BLACK_THRESH
        THEN <<0, 0, 0>>
        ELSE rgb

\* Lines 64-72: the three bytes emitted for one pixel p of the resized image
\* (a 4-tuple when the image was converted to RGBA, a 3-tuple otherwise).
PixelRgb(p, black_to_transparent) ==
    LET rgb == IF Len(p) = 4
               THEN IF p[4] < 128 THEN <<0, 0, 0>> ELSE <<p[1], p[2], p[3]>>
               ELSE p
    IN  IF black_to_transparent /\ rgb[1] < BLACK_THRESH /\ rgb[2] < BLACK_THRESH
                                /\ rgb[3] < BLACK_THRESH
        THEN <<0, 0, 0>>
        ELSE rgb

\* Lines 73-74: out[i], out[i+1], out[i+2] = r, g, b with i = (y*size[0] + x)*3.
StorePixel(out, size, x, y, rgb) ==
    LET i == (y * size[1] + x) * 3
    IN  [out EXCEPT ![i + 1] = rgb[1], ![i + 2] = rgb[2], ![i + 3] = rgb[3]]

RECURSIVE RgbX(_, _, _, _, _, _)
RgbX(out, pix, size, btt, y, x) ==
    IF x >= size[1] THEN out
    ELSE LET o == StorePixel(out, size, x, y, PixelRgb(pix[<<x, y>>], btt))
         IN  IF Len(o) >= 0 THEN RgbX(o, pix, size, btt, y, x + 1) ELSE o

RECURSIVE RgbY(_, _, _, _, _)
RgbY(out, pix, size, btt, y) ==
    IF y >= size[2] THEN out
    ELSE LET o == RgbX(out, pix, size, btt, y, 0)
         IN  IF Len(o) >= 0 THEN RgbY(o, pix, size, btt, y + 1) ELSE o

\* Lines 60-75 of to_rgb888: the pixel loop over the resized image `pix`
\* (pix[<<x, y>>] is what resized.load()[x, y] returns).
RgbLoop(pix, size, black_to_transparent) ==
    RgbY(Zeros(size[1] * size[2] * 3), pix, size, black_to_transparent, 0)


\* Lines 53-58, img.convert: an image is modelled by its mode, its size and
\* the one colour all its pixels have (a tuple of the mode's bands). Modes
\* RGBA, LA and P become RGBA, every other mode RGB.
Convert(img) ==
    IF img.mode \in {"RGBA", "LA", "P"}
    THEN [img EXCEPT !.mode = "RGBA",
                     !.colour = IF img.mode = "LA"
                                THEN <<img.colour[1], img.colour[1], img.colour[1], img.colour[2]>>
                                ELSE img.colour]
    ELSE [img EXCEPT !.mode = "RGB",
                     !.colour = IF img.mode = "L"
                                THEN <<img.colour[1], img.colour[1], img.colour[1]>>
                                ELSE img.colour]

\* Lines 55/58, img.resize(size, LANCZOS), then resized.load(): the filter's
\* weights sum to one, so an image of one colour is resampled to that colour
\* at the new size; a fully transparent RGBA image comes out as (0,0,0,0).
Resample(img, size) ==
    LET c == IF img.mode = "RGBA" /\ img.colour[4] = 0 THEN <<0, 0, 0, 0>> ELSE img.colour
    IN  [xy \in (0..(size[1] - 1)) \X (0..(size[2] - 1)) |-> c]

to_rgb888(img, size, black_to_transparent) ==
    RgbLoop(Resample(Convert(img), size), size, black_to_transparent)

(***************************************************************************)
(* convert_icons_to_bin.py: find_source and main                           *)
(***************************************************************************)

SRC == "Imágenes"

SRC_ALT == <<"Documentos", "Imagenes">>

None == <<>>

\* candidate.exists(): the file is there, whatever it holds.
Exists(d, dir, src_name) == d[<<dir, src_name>>] # "absent"

RECURSIVE FindAlt(_, _, _)
FindAlt(d, src_name, k) ==
    IF k > Len(SRC_ALT) THEN None
    ELSE IF Exists(d, SRC_ALT[k], src_name) THEN <<SRC_ALT[k], src_name>>
    ELSE FindAlt(d, src_name, k + 1)

\* find_source trying the SRC_ALT directories in reverse order.
find_source_LastAlt(d, src_name) ==
    IF Exists(d, SRC, src_name) THEN <<SRC, src_name>>
    ELSE IF Exists(d, SRC_ALT[2], src_name) THEN <<SRC_ALT[2], src_name>>
    ELSE IF Exists(d, SRC_ALT[1], src_name) THEN <<SRC_ALT[1], src_name>>
    ELSE None

find_source(d, src_name) ==
    IF Exists(d, SRC, src_name) THEN <<SRC, src_name>>
    ELSE FindAlt(d, src_name, 1)


\* The output names of the model for which `"btn_" in out_name` holds.
HasBtn(out_name) == out_name \in {"btn_close.bin", "btn_min.bin", "btn_max.bin"}

\* Line 99. An item is a 2- or 3-tuple in the source; here a record whose
\* field len says which, with size meaningful when len = 3.
SizeOf(item) ==
    IF item.len = 3 THEN <<item.size, item.size>>
    ELSE IF ~HasBtn(item.out) THEN <<64, 64>> ELSE <<20, 20>>

\* Image.open(src_path) raises on a file it cannot identify.
OpenRaises(d, src_path) == d[src_path] = "undecodable"

\* The image Image.open returns: the file's picture (a function of where the
\* file lies, so that files of one name in two directories differ), and
\* whether its pixel data can be loaded.
Names == <<"iconos-eclipse-2.jpg", "cerrar.jpg", "logo-eclipse.jpg", "roto.jpg">>

NameIx(src_name) == CHOOSE i \in 1..Len(Names) : Names[i] = src_name

Picture(src_path) ==
    LET n == NameIx(src_path[2]) IN
    IF src_path[1] = SRC THEN [mode |-> "RGB", w |-> 1024, h |-> 1024, colour |-> <<40 + n, 10 * n, 200>>]
    ELSE IF src_path[1] = SRC_ALT[1]
    THEN [mode |-> "RGBA", w |-> 1024, h |-> 1024, colour |-> <<20, 30 + n, 10, 255>>]
    ELSE [mode |-> "L", w |-> 1024, h |-> 1024, colour |-> <<100 + n>>]

\* Lines 100-104. img.crop loads the pixel data first, and refuses a box
\* whose right or lower edge lies before its left or upper edge.
CropRaises(d, src_path, spec) ==
    spec # None /\ (d[src_path] = "truncated" \/ spec[3] < 0 \/ spec[4] < 0)

Region(img, spec) ==
    IF spec = None THEN img ELSE [img EXCEPT !.w = spec[3], !.h = spec[4]]

\* Line 105 raises when img.convert cannot load the pixel data.
ConvertRaises(d, src_path) == d[src_path] = "truncated"

\* A write that leaves a file that already exists as it is.
WriteBytes_KeepExisting(files, out_name, data) ==
    IF files[out_name].exists THEN files
    ELSE [files EXCEPT ![out_name] = [exists |-> TRUE, data |-> data]]

\* Line 107, out_path.write_bytes(data).
WriteBytes(files, out_name, data) ==
    [files EXCEPT ![out_name] = [exists |-> TRUE, data |-> data]]

\* Whether some item of the source raises.
ItemsRaise(d, src_path, items) ==
    \E k \in 1..Len(items) : CropRaises(d, src_path, items[k].spec) \/ ConvertRaises(d, src_path)

\* Lines 96-108, the loop over one source's items: the files afterwards, and
\* whether an item raised (the items before it have been written). Each
\* write is evaluated (DOMAIN f is never empty) before the next item.
RECURSIVE Items(_, _, _, _, _)
Items(files, d, src_path, items, k) ==
    IF k > Len(items) THEN [files |-> files, raised |-> FALSE]
    ELSE LET item == items[k]
             size == SizeOf(item)
         IN  IF CropRaises(d, src_path, item.spec) \/ ConvertRaises(d, src_path)
             THEN [files |-> files, raised |-> TRUE]
             ELSE LET data == to_rgb888(Region(Picture(src_path), item.spec), size, TRUE)
                      f == WriteBytes(files, item.out, data)
                  IN  IF DOMAIN f # {} THEN Items(f, d, src_path, items, k + 1)
                      ELSE [files |-> f, raised |-> FALSE]

\* The for loop of line 90 ends, and main returns, after the last source.
Advance ==
    /\ pos' = pos + 1
    /\ icons_pc' = IF pos + 1 > Len(layouts) THEN "done" ELSE "running"

\* Lines 91-94: the source is nowhere; it is skipped.
SkipSource ==
    /\ icons_pc = "running"
    /\ find_source(disk, layouts[pos].src) = None
    /\ Advance
    /\ UNCHANGED <<disk, layouts, dst_files>>

\* Lines 95-108 without an exception: every item of the source is written.
ConvertSource ==
    /\ icons_pc = "running"
    /\ LET src_path == find_source(disk, layouts[pos].src) IN
       /\ src_path # None
       /\ ~OpenRaises(disk, src_path)
       /\ ~ItemsRaise(disk, src_path, layouts[pos].items)
       /\ dst_files' = Items(dst_files, disk, src_path, layouts[pos].items, 1).files
    /\ Advance
    /\ UNCHANGED <<disk, layouts>>

\* Lines 95-108 with an exception: nothing in main catches it, so it leaves
\* main with the table position where it was.
FailSource ==
    /\ icons_pc = "running"
    /\ LET src_path == find_source(disk, layouts[pos].src) IN
       /\ src_path # None
       /\ \/ /\ OpenRaises(disk, src_path)
             /\ dst_files' = dst_files
          \/ /\ ~OpenRaises(disk, src_path)
             /\ ItemsRaise(disk, src_path, layouts[pos].items)
             /\ dst_files' = Items(dst_files, disk, src_path, layouts[pos].items, 1).files
    /\ icons_pc' = "crashed"
    /\ UNCHANGED <<disk, layouts, pos>>


(***************************************************************************)
(* SpecIcons: the batch of convert_icons_to_bin.py over a layout table     *)
(***************************************************************************)

\* The longest layout table of the model.
MaxSources == 2

Item2(spec, out_name) == [len |-> 2, spec |-> spec, out |-> out_name, size |-> 0]

Item3(spec, out_name, size) == [len |-> 3, spec |-> spec, out |-> out_name, size |-> size]

\* The rows the tables of the model are made of: the composite sheet of
\* LAYOUTS (lines 25-29) and the logo (lines 39-41) with small explicit sizes,
\* the close button that overrides the sheet's (line 34) at its default size,
\* and a row whose second crop box is refused.
RowOf(src_name) ==
    [src |-> src_name,
     items |->
        IF src_name = "iconos-eclipse-2.jpg"
        THEN << Item3(<<0, 0, 341, 1024>>, "btn_close.bin", 2),
                Item3(<<341, 0, 342, 1024>>, "btn_min.bin", 2),
                Item3(<<682, 0, 342, 1024>>, "btn_max.bin", 2) >>
        ELSE IF src_name = "cerrar.jpg" THEN << Item2(None, "btn_close.bin") >>
        ELSE IF src_name = "logo-eclipse.jpg"
        THEN << Item3(<<150, 150, 724, 724>>, "logo.bin", 2) >>
        ELSE << Item3(None, "btn_max.bin", 1), Item3(<<0, 0, -1, 5>>, "btn_close.bin", 1) >>]

OutNames == {"btn_close.bin", "btn_min.bin", "btn_max.bin", "logo.bin"}

Dirs == <<SRC, SRC_ALT[1], SRC_ALT[2]>>

\* How a source file may lie in SRC, SRC_ALT[1], SRC_ALT[2].
Placements ==
    { <<"absent", "absent", "absent">>, <<"ok", "ok", "ok">>,
      <<"absent", "ok", "ok">>, <<"absent", "absent", "ok">>,
      <<"undecodable", "ok", "absent">>, <<"absent", "truncated", "ok">> }

NameSet == {Names[i] : i \in 1..Len(Names)}

\* Ordered tables of 1..MaxSources distinct sources (LAYOUTS is a dict: a
\* source name occurs once).
Tables ==
    UNION { { [i \in 1..n |-> RowOf(t[i])] :
              t \in { u \in [1..n -> NameSet] : \A i, j \in 1..n : i # j => u[i] # u[j] } }
            : n \in 1..MaxSources }

TableNames(t) == {t[i].src : i \in 1..Len(t)}

\* The files of the names the table asks for; no other name is on the disk.
DisksFor(t) ==
    { [p \in {<<Dirs[k], nm>> : k \in 1..3, nm \in NameSet} |->
          IF p[2] \in TableNames(t)
          THEN pl[p[2]][CHOOSE k \in 1..3 : Dirs[k] = p[1]]
          ELSE "absent"]
      : pl \in [TableNames(t) -> Placements] }

NoFile == [exists |-> FALSE, data |-> <<>>]

\* DST before the run: empty, or holding the files of an earlier run.
InitialDst ==
    { [f \in OutNames |-> NoFile],
      [f \in OutNames |-> [exists |-> TRUE, data |-> <<7, 7, 7>>]] }

FnIdle == call = [fn |-> "none", data |-> <<>>, a |-> <<>>] /\ ret = [state |-> "none", val |-> 0, buf |-> <<>>]

IconsIdle == disk = <<>> /\ layouts = <<>> /\ pos = 0 /\ dst_files = <<>> /\ icons_pc = "none"

FontsIdle == raw_12 = <<>> /\ out_dir = <<>> /\ scaled = <<>> /\ fonts_pc = <<0, "none">>

InitIcons ==
    /\ layouts \in Tables
    /\ disk \in DisksFor(layouts)
    /\ pos = 1
    /\ dst_files \in InitialDst
    /\ icons_pc = "running"
    /\ FnIdle
    /\ FontsIdle

NextIcons ==
    \/ SkipSource /\ UNCHANGED <<fn_vars, fonts_vars>>
    \/ ConvertSource /\ UNCHANGED <<fn_vars, fonts_vars>>
    \/ FailSource /\ UNCHANGED <<fn_vars, fonts_vars>>

SpecIcons == InitIcons /\ [][NextIcons]_vars


(***************************************************************************)
(* Claims about the batch (SpecIcons)                                      *)
(***************************************************************************)

Missing(src_name) == \A k \in 1..3 : disk[<<Dirs[k], src_name>>] = "absent"

\* The rules <<i, k>> (item k of source i) of present sources that name f.
RulesFor(f) ==
    { w \in (1..Len(layouts)) \X (1..3) :
        /\ w[2] <= Len(layouts[w[1]].items)
        /\ ~Missing(layouts[w[1]].src)
        /\ layouts[w[1]].items[w[2]].out = f }

Before(v, w) == v[1] < w[1] \/ (v[1] = w[1] /\ v[2] <= w[2])

\* What rule w writes: the conversion of its region of its source's picture.
ConversionOf(w) ==
    LET row == layouts[w[1]]
        item == row.items[w[2]]
        path == IF Exists(disk, SRC, row.src) THEN <<SRC, row.src>>
                ELSE IF Exists(disk, SRC_ALT[1], row.src) THEN <<SRC_ALT[1], row.src>>
                ELSE <<SRC_ALT[2], row.src>>
    IN  to_rgb888(Region(Picture(path), item.spec), SizeOf(item), TRUE)

\* C1: when the batch has run to completion, every output file that a rule of
\* a present source names holds the conversion of the last such rule in
\* declared order; in particular, of two sources A then B naming one file,
\* B's conversion and not A's.
C1_LastRuleWins ==
    icons_pc = "done" =>
        \A f \in OutNames :
            RulesFor(f) # {} =>
                LET last == CHOOSE w \in RulesFor(f) : \A v \in RulesFor(f) : Before(v, w)
                IN  dst_files[f] = [exists |-> TRUE, data |-> ConversionOf(last)]

\* C1's case: a completed batch in which two different present sources named
\* one output, their conversions differ, and the file holds the later one.
C1_Witness ==
    /\ icons_pc = "done"
    /\ \E f \in OutNames : \E v, w \in RulesFor(f) :
          /\ v[1] < w[1]
          /\ \A u \in RulesFor(f) : Before(u, w)
          /\ ConversionOf(v) # ConversionOf(w)
          /\ dst_files[f].data = ConversionOf(w)

\* C2: a failure while processing one source (an undecodable image, a failing
\* crop) never ends the batch with later sources of the table unprocessed.
C2_FailureSkipsOnlyThatSource ==
    ~(icons_pc = "crashed" /\ pos < Len(layouts))

\* A step on a source that is in none of the directories changes no output
\* file and moves on to the next source (or ends the batch after the last).
C3_SkipStep ==
    (icons_pc = "running" /\ Missing(layouts[pos].src)) =>
        /\ dst_files' = dst_files
        /\ pos' = pos + 1
        /\ icons_pc' = IF pos' > Len(layouts) THEN "done" ELSE "running"

\* find_source returns the SRC candidate when it exists, else the first
\* existing SRC_ALT candidate in list order, else None.
C3_FindSource ==
    \A nm \in NameSet :
        LET r == find_source(disk, nm) IN
        /\ Exists(disk, SRC, nm) => r = <<SRC, nm>>
        /\ (~Exists(disk, SRC, nm) /\ Exists(disk, SRC_ALT[1], nm)) => r = <<SRC_ALT[1], nm>>
        /\ (~Exists(disk, SRC, nm) /\ ~Exists(disk, SRC_ALT[1], nm) /\ Exists(disk, SRC_ALT[2], nm))
              => r = <<SRC_ALT[2], nm>>
        /\ Missing(nm) => r = None

\* C3: when a source is found neither in SRC nor in any SRC_ALT directory,
\* none of its rules writes or modifies an output file and the batch goes on
\* with the next source; find_source returns the SRC candidate when it
\* exists, otherwise the first existing SRC_ALT candidate in list order.
C3_SkipAndContinue == [](icons_pc # "none" => C3_FindSource) /\ [][C3_SkipStep]_vars

\* C3's case: the first source was missing and skipped, earlier files kept
\* their content, and the batch went on to convert the second source, found
\* in both alternative directories, from the first of them.
C3_Witness ==
    /\ icons_pc = "done"
    /\ Len(layouts) = 2
    /\ Missing(layouts[1].src)
    /\ ~Exists(disk, SRC, layouts[2].src)
    /\ Exists(disk, SRC_ALT[1], layouts[2].src)
    /\ Exists(disk, SRC_ALT[2], layouts[2].src)
    /\ LET item == layouts[2].items[1] IN
       /\ dst_files[item.out].data =
             to_rgb888(Region(Picture(<<SRC_ALT[1], layouts[2].src>>), item.spec), SizeOf(item), TRUE)
       /\ \E f \in OutNames : dst_files[f].data = <<7, 7, 7>>


(***************************************************************************)
(* gen_eclipse_fonts.py: main                                              *)
(***************************************************************************)

\* Lines 23-30.
Dim(w, h, atlas_w, baseline, underline, strikethrough) ==
    [w |-> w, h |-> h, atlas_w |-> atlas_w, baseline |-> baseline,
     underline |-> underline, strikethrough |-> strikethrough]

SIZES ==
    [sz \in {12, 14, 16, 18, 20, 24} |->
        IF sz = 12 THEN Dim(6, 12, 96, 9, 11, 6)
        ELSE IF sz = 14 THEN Dim(8, 14, 128, 11, 13, 7)
        ELSE IF sz = 16 THEN Dim(8, 16, 128, 11, 13, 8)
        ELSE IF sz = 18 THEN Dim(10, 18, 160, 14, 16, 9)
        ELSE IF sz = 20 THEN Dim(10, 20, 160, 15, 17, 10)
        ELSE Dim(12, 24, 192, 18, 20, 12)]

\* Lines 93-107: the descriptor text, as the values it is formatted from.
make_rs_content(size) == [size |-> size, character_spacing |-> 0, dim |-> SIZES[size]]

\* Size 12 first (lines 128-140), then the loop of line 143.
FontOrder == <<12, 14, 16, 18, 20, 24>>

\* The files of out_dir: <<size, "data">> is font_eclipse_<size>.data and
\* <<size, "rs">> is font_eclipse_<size>.rs.
FontFiles == {<<FontOrder[i], ext>> : i \in 1..Len(FontOrder), ext \in {"data", "rs"}}

\* Lines 128-136: font_eclipse_12.data is the input at its expected length.
Write12 ==
    /\ fonts_pc = <<1, "data">>
    /\ LET dim_12 == SIZES[12]
           atlas_bytes_12 == (dim_12.atlas_w * 6 * 12) \div 8
           font_12_data == ensure_atlas_size(raw_12, atlas_bytes_12)
       IN  out_dir' = [out_dir EXCEPT ![<<12, "data">>] = [exists |-> TRUE, data |-> font_12_data]]
    /\ fonts_pc' = <<1, "rs">>
    /\ UNCHANGED <<raw_12, scaled>>

\* Lines 138-140 and 163-165: the descriptor of the size just written.
WriteRs ==
    /\ fonts_pc[2] = "rs"
    /\ LET sz == FontOrder[fonts_pc[1]]
       IN  out_dir' = [out_dir EXCEPT ![<<sz, "rs">>] = [exists |-> TRUE, data |-> make_rs_content(sz)]]
    /\ fonts_pc' = <<fonts_pc[1] + 1, "data">>
    /\ UNCHANGED <<raw_12, scaled>>

\* Lines 143-161: the atlas of one scaled size.
WriteScaled ==
    /\ fonts_pc[2] = "data"
    /\ fonts_pc[1] \in 2..Len(FontOrder)
    /\ LET sz == FontOrder[fonts_pc[1]]
           dim == SIZES[sz]
           dim_12 == SIZES[12]
           dst_atlas_w == dim.atlas_w
           dst_atlas_h == 6 * dim.h
           dst_total == (dst_atlas_w * dst_atlas_h + 7) \div 8
           font_12_data == out_dir[<<12, "data">>].data
       IN  /\ scaled' = scale_1bpp_atlas(font_12_data, dim_12.w, dim_12.h, dim.w, dim.h)
           /\ out_dir' = [out_dir EXCEPT ![<<sz, "data">>] =
                             [exists |-> TRUE, data |-> ensure_atlas_size(scaled', dst_total)]]
    /\ fonts_pc' = <<fonts_pc[1], "rs">>
    /\ UNCHANGED raw_12

(***************************************************************************)
(* SpecFonts: main of gen_eclipse_fonts.py over decoded hex inputs         *)
(***************************************************************************)

\* How far the input lengths of the model lie from 0 and from the expected
\* length of the size 12 atlas.
MaxDelta == 1

\* Input contents: one bit in every seventh byte, or mixed bytes.
InputByte(kind, i) ==
    IF kind = 1 THEN (IF i % 7 = 0 THEN 16 ELSE 0) ELSE (i * 37 + 11) % 256

InputLengths == UNION { {k, 864 - k, 864 + k} : k \in 0..MaxDelta }

InitFonts ==
    /\ \E n \in InputLengths, kind \in 1..2 : raw_12 = [i \in 1..n |-> InputByte(kind, i)]
    /\ out_dir = [f \in FontFiles |-> NoFile]
    /\ scaled = <<>>
    /\ fonts_pc = <<1, "data">>
    /\ FnIdle
    /\ IconsIdle

NextFonts ==
    \/ Write12 /\ UNCHANGED <<fn_vars, icons_vars>>
    \/ WriteRs /\ UNCHANGED <<fn_vars, icons_vars>>
    \/ WriteScaled /\ UNCHANGED <<fn_vars, icons_vars>>

SpecFonts == InitFonts /\ [][NextFonts]_vars


(***************************************************************************)
(* SpecFn: single calls of the functions, over bounded arguments           *)
(***************************************************************************)

\* Bitmaps for get_pixel/set_pixel are 1..MaxWidth wide, 1..MaxHeight high.
MaxWidth == 9

MaxHeight == 2

\* How far outside the bitmap the coordinates of the model go.
OutX == 8

OutY == 2

\* Glyph cells for scale_1bpp_atlas.
MaxSrcCell == 2

MaxDstCell == 4

\* Buffer lengths for ensure_atlas_size.
MaxLen == 3

\* The sides of the resized images for to_rgb888.
MaxSide == 2

\* Buffer contents: all zero, all one, a checkerboard over rows of bpr bytes,
\* or mixed bytes.
Content(kind, n, bpr) ==
    [i \in 1..n |->
        IF kind = 0 THEN 0
        ELSE IF kind = 1 THEN 255
        ELSE IF kind = 2 THEN (IF ((i - 1) \div bpr) % 2 = 0 THEN 170 ELSE 85)
        ELSE (i * 37 + 11) % 256] \o <<>>

Call(fn, data, a) == [fn |-> fn, data |-> data, a |-> a]

GetPixelCalls ==
    { Call("get_pixel", Content(kind, ((bw + 7) \div 8) * h, 1), <<bw, x, y>>) :
        kind \in {0, 1, 3}, bw \in 1..MaxWidth, h \in 1..MaxHeight,
        x \in (0 - OutX)..(MaxWidth + OutX - 1), y \in (0 - OutY)..(MaxHeight + OutY - 1) }

SetPixelCalls ==
    { Call("set_pixel", c.data, c.a \o <<v>>) : c \in GetPixelCalls, v \in {0, 1} }

ScaleCalls ==
    { Call("scale_1bpp_atlas", Content(kind, 2 * sw * rows * sh - short, 2 * sw), <<sw, sh, dw, dh>>) :
        kind \in {2, 3}, short \in {0, 1},
        sw \in 1..MaxSrcCell, sh \in 1..MaxSrcCell, dw \in 1..MaxDstCell, dh \in 1..MaxDstCell }

EnsureCalls ==
    { Call("ensure_atlas_size", Content(kind, n, 1), <<expected>>) :
        kind \in {1, 3}, n \in 0..MaxLen, expected \in 0..(MaxLen + 1) }

\* Pixels of a resized image: every channel below, just below, at and above
\* BLACK_THRESH; with alpha, below, just below, at and above 128.
Chan == <<0, 23, 24, 255>>

Alphas == <<0, 127, 128, 255>>

PixelNo(q, bands) ==
    LET rgb == <<Chan[(q % 4) + 1], Chan[((q \div 4) % 4) + 1], Chan[((q \div 16) % 4) + 1]>>
    IN  IF bands = 3 THEN rgb ELSE rgb \o <<Alphas[((q \div 64) % 4) + 1]>>

\* The image whose pixel (0,0) is pixel q, the others following on from it.
ImageNo(q, bands, w, h) ==
    [xy \in (0..(w - 1)) \X (0..(h - 1)) |-> PixelNo(q + 7 * xy[1] + 13 * xy[2], bands)]

RgbCalls3 ==
    { Call("to_rgb888", ImageNo(q, 3, w, h), <<w, h>>) : q \in 0..63, w \in 1..MaxSide, h \in 1..MaxSide }

RgbCalls4 ==
    { Call("to_rgb888", ImageNo(q, 4, w, h), <<w, h>>) : q \in 0..255, w \in 1..MaxSide, h \in 1..MaxSide }

Pending == [state |-> "pending", val |-> 0, buf |-> <<>>]

Returned(val, buf) == [state |-> "returned", val |-> val, buf |-> buf]

Raised == [state |-> "raised", val |-> 0, buf |-> <<>>]

CallGetPixel ==
    /\ call.fn = "get_pixel" /\ ret = Pending
    /\ LET r == get_pixel(call.data, call.a[1], call.a[2], call.a[3])
       IN  ret' = IF r = IndexError THEN Raised ELSE Returned(r, <<>>)
    /\ UNCHANGED call

CallSetPixel ==
    /\ call.fn = "set_pixel" /\ ret = Pending
    /\ ret' = IF set_pixel_raises(call.data, call.a[1], call.a[2], call.a[3], call.a[4])
              THEN Raised
              ELSE Returned(0, set_pixel(call.data, call.a[1], call.a[2], call.a[3], call.a[4]))
    /\ UNCHANGED call

CallScale ==
    /\ call.fn = "scale_1bpp_atlas" /\ ret = Pending
    /\ ret' = Returned(0, scale_1bpp_atlas(call.data, call.a[1], call.a[2], call.a[3], call.a[4]))
    /\ UNCHANGED call

CallEnsure ==
    /\ call.fn = "ensure_atlas_size" /\ ret = Pending
    /\ ret' = Returned(0, ensure_atlas_size(call.data, call.a[1]))
    /\ UNCHANGED call

CallRgb ==
    /\ call.fn = "to_rgb888" /\ ret = Pending
    /\ ret' = Returned(0, RgbLoop(call.data, call.a, TRUE))
    /\ UNCHANGED call

InitFn ==
    /\ \/ call \in GetPixelCalls
       \/ call \in SetPixelCalls
       \/ call \in ScaleCalls
       \/ call \in EnsureCalls
       \/ call \in RgbCalls3
       \/ call \in RgbCalls4
    /\ ret = Pending
    /\ IconsIdle
    /\ FontsIdle

NextFn ==
    \/ CallGetPixel /\ UNCHANGED <<icons_vars, fonts_vars>>
    \/ CallSetPixel /\ UNCHANGED <<icons_vars, fonts_vars>>
    \/ CallScale /\ UNCHANGED <<icons_vars, fonts_vars>>
    \/ CallEnsure /\ UNCHANGED <<icons_vars, fonts_vars>>
    \/ CallRgb /\ UNCHANGED <<icons_vars, fonts_vars>>

SpecFn == InitFn /\ [][NextFn]_vars


(***************************************************************************)
(* Claims about single calls (SpecFn)                                      *)
(***************************************************************************)

\* The bitmap a get_pixel/set_pixel call is about: bw wide, its rows
\* ceil(bw/8) bytes each, as many rows as the buffer holds.
CallStride == (call.a[1] + 7) \div 8

CallHeight == Len(call.data) \div CallStride

CallInBounds ==
    /\ call.a[2] >= 0 /\ call.a[2] < call.a[1]
    /\ call.a[3] >= 0 /\ call.a[3] < CallHeight

\* Bit k (0 = least significant) of byte i (from 1) of a buffer.
BufBit(buf, i, k) == (buf[i] \div (2 ^ k)) % 2

\* The bit of pixel (x, y) of an atlas atlas_w pixels wide, most significant
\* bit first; 0 where the buffer ends before it.
AtlasBit(buf, atlas_w, x, y) ==
    LET i == y * ((atlas_w + 7) \div 8) + (x \div 8) + 1
    IN  IF i > Len(buf) THEN 0 ELSE BufBit(buf, i, 7 - (x % 8))

\* C4: for every (x,y) outside [0,width) x [0,height), get_pixel returns 0
\* and set_pixel leaves the buffer unchanged, and neither raises.
C4_OutOfBoundsIsBackground ==
    (call.fn \in {"get_pixel", "set_pixel"} /\ ret # Pending /\ ~CallInBounds) =>
        ret = Returned(0, IF call.fn = "set_pixel" THEN call.data ELSE <<>>)

\* C10 as stated: for every in-range (x,y) and every content, after
\* set_pixel(x,y,v) the pixel reads v (set when v is true, cleared when v is
\* false) and no other bit has changed.
C10_SetsOrClears ==
    (call.fn = "set_pixel" /\ ret # Pending /\ CallInBounds) =>
        /\ ret.state = "returned"
        /\ AtlasBit(ret.buf, call.a[1], call.a[2], call.a[3]) = call.a[4]
        /\ \A i \in 1..Len(call.data), k \in 0..7 :
              (i # call.a[3] * CallStride + (call.a[2] \div 8) + 1 \/ k # 7 - (call.a[2] % 8))
                 => BufBit(ret.buf, i, k) = BufBit(call.data, i, k)

\* C10 amended: for every in-range (x,y) and every content, set_pixel(x,y,v)
\* with v true sets the bit, so that the pixel then reads 1; with v false it
\* leaves the buffer as it is (a set bit is not cleared); no other bit changes.
C10_SetsOnly ==
    (call.fn = "set_pixel" /\ ret # Pending /\ CallInBounds) =>
        /\ ret.state = "returned"
        /\ Len(ret.buf) = Len(call.data)
        /\ call.a[4] = 1 => AtlasBit(ret.buf, call.a[1], call.a[2], call.a[3]) = 1
        /\ call.a[4] = 0 => ret.buf = call.data
        /\ \A i \in 1..Len(call.data), k \in 0..7 :
              (i # call.a[3] * CallStride + (call.a[2] \div 8) + 1 \/ k # 7 - (call.a[2] % 8))
                 => BufBit(ret.buf, i, k) = BufBit(call.data, i, k)

\* C10's case: an in-range set_pixel with v true turned a clear bit on, in a
\* buffer that has other bits set and other bits clear.
C10_Witness ==
    /\ call.fn = "set_pixel" /\ ret.state = "returned" /\ CallInBounds
    /\ call.a[4] = 1
    /\ AtlasBit(call.data, call.a[1], call.a[2], call.a[3]) = 0
    /\ AtlasBit(ret.buf, call.a[1], call.a[2], call.a[3]) = 1
    /\ \E i \in 1..Len(call.data) : call.data[i] \notin {0, 255}

\* C5: scaling an atlas of ceil(16*w/8) * 6*h bytes from cell (w,h) to the
\* same cell returns the atlas, byte for byte.
C5_IdentityScale ==
    (call.fn = "scale_1bpp_atlas" /\ ret # Pending /\ call.a[3] = call.a[1] /\ call.a[4] = call.a[2]
        /\ Len(call.data) = ((16 * call.a[1] + 7) \div 8) * (6 * call.a[2])) =>
        ret = Returned(0, call.data)

\* C5's case: an identity scale of a full-length atlas of mixed bytes, with
\* cells more than one pixel wide and high, has returned.
C5_Witness ==
    /\ call.fn = "scale_1bpp_atlas" /\ ret.state = "returned"
    /\ call.a = <<2, 2, 2, 2>>
    /\ Len(call.data) = 48
    /\ \E i \in 1..Len(call.data) : call.data[i] \notin {0, 85, 170, 255}
    /\ ret.buf = call.data

\* C6: in the output of scale_1bpp_atlas, for every glyph g in 0..95 (column
\* g mod 16, row g div 16) and every pixel (dx,dy) of the destination cell,
\* the destination bit at the glyph's destination offset is the source bit at
\* (floor(dx*src_w/dst_w), floor(dy*src_h/dst_h)) in the glyph's source cell.
C6_NearestNeighbour ==
    (call.fn = "scale_1bpp_atlas" /\ ret # Pending) =>
        /\ ret.state = "returned"
        /\ LET sw == call.a[1]  sh == call.a[2]  dw == call.a[3]  dh == call.a[4] IN
           \A g \in 0..95, dx \in 0..(dw - 1), dy \in 0..(dh - 1) :
              AtlasBit(ret.buf, 16 * dw, (g % 16) * dw + dx, (g \div 16) * dh + dy)
                = AtlasBit(call.data, 16 * sw, (g % 16) * sw + ((dx * sw) \div dw),
                           (g \div 16) * sh + ((dy * sh) \div dh))

\* C6's case: the 2x2 cell {(0,0)=1,(0,1)=0,(1,0)=0,(1,1)=1} of every glyph
\* scaled to 4x4 gave the 2x2 blocks 1,0 / 0,1: destination rows 1100 1100 ...
\* twice, then 0011 0011 ... twice, for each glyph row.
C6_Witness ==
    /\ call.fn = "scale_1bpp_atlas" /\ ret.state = "returned"
    /\ call.a = <<2, 2, 4, 4>>
    /\ call.data = [i \in 1..48 |-> IF ((i - 1) \div 4) % 2 = 0 THEN 170 ELSE 85]
    /\ ret.buf = [i \in 1..192 |-> IF ((i - 1) \div 8) % 4 < 2 THEN 204 ELSE 51]

\* C7: the pixel loop of to_rgb888 emits, for every pixel of the resized
\* image, (0,0,0) if the pixel has alpha below 128 or all three (post-alpha)
\* channels strictly below 24, and the pixel's R,G,B otherwise; the output is
\* width*height*3 bytes with pixel (x,y) at byte offset (y*width+x)*3.
C7_ColourKey ==
    (call.fn = "to_rgb888" /\ ret # Pending) =>
        /\ ret.state = "returned"
        /\ Len(ret.buf) = call.a[1] * call.a[2] * 3
        /\ \A x \in 0..(call.a[1] - 1), y \in 0..(call.a[2] - 1) :
              LET p == call.data[<<x, y>>]
                  off == (y * call.a[1] + x) * 3
                  black == \/ (Len(p) = 4 /\ p[4] < 128)
                           \/ (p[1] < 24 /\ p[2] < 24 /\ p[3] < 24)
              IN  <<ret.buf[off + 1], ret.buf[off + 2], ret.buf[off + 3]>>
                    = IF black THEN <<0, 0, 0>> ELSE <<p[1], p[2], p[3]>>

\* C7's case: a converted 2x2 RGBA image in which a pixel at exactly
\* (24,24,24) with alpha 128 is emitted as it is, and another pixel with one
\* channel at 24 or more and the others below is emitted as it is too.
C7_Witness ==
    /\ call.fn = "to_rgb888" /\ ret.state = "returned"
    /\ call.a = <<2, 2>>
    /\ \E x, y, u, v \in 0..1 :
          /\ call.data[<<x, y>>] = <<24, 24, 24, 128>>
          /\ ret.buf[(y * 2 + x) * 3 + 1] = 24
          /\ ret.buf[(y * 2 + x) * 3 + 2] = 24
          /\ ret.buf[(y * 2 + x) * 3 + 3] = 24
          /\ call.data[<<u, v>>][1] < 24 /\ call.data[<<u, v>>][3] >= 24
          /\ ret.buf[(v * 2 + u) * 3 + 1] = call.data[<<u, v>>][1]
          /\ ret.buf[(v * 2 + u) * 3 + 3] = call.data[<<u, v>>][3]

\* C8: ensure_atlas_size(data, N) returns exactly N bytes: the first N bytes
\* of data when len(data) >= N, else data followed by N - len(data) zero
\* bytes; it never fails.
C8_ExactLength ==
    (call.fn = "ensure_atlas_size" /\ ret # Pending) =>
        /\ ret.state = "returned"
        /\ Len(ret.buf) = call.a[1]
        /\ \A i \in 1..call.a[1] :
              ret.buf[i] = IF i <= Len(call.data) THEN call.data[i] ELSE 0

\* C8's cases are padding and truncation; this is a padded one: two non-zero
\* bytes brought to four.
C8_Witness ==
    /\ call.fn = "ensure_atlas_size" /\ ret.state = "returned"
    /\ Len(call.data) = 2 /\ call.a[1] = 4
    /\ call.data[1] # 0 /\ call.data[2] # 0
    /\ ret.buf = <<call.data[1], call.data[2], 0, 0>>

(***************************************************************************)
(* Claims about the font generator (SpecFonts)                             *)
(***************************************************************************)

ExpectedAtlasBytes(sz) == ((SIZES[sz].atlas_w + 7) \div 8) * (6 * SIZES[sz].h)

\* The index in FontOrder of the size whose atlas was written last.
LastWritten == IF fonts_pc[2] = "rs" THEN fonts_pc[1] ELSE fonts_pc[1] - 1

\* C9: every atlas file written has exactly ceil(atlas_w/8) * (6*glyph_h)
\* bytes, whatever the length of the input; and for a scaled size the scaler's
\* output already has that length, so that the file is that output as it is.
C9_AtlasLengths ==
    fonts_pc # <<0, "none">> =>
        /\ \A i \in 1..Len(FontOrder) :
              out_dir[<<FontOrder[i], "data">>].exists
                 => Len(out_dir[<<FontOrder[i], "data">>].data) = ExpectedAtlasBytes(FontOrder[i])
        /\ LastWritten >= 2 =>
              /\ Len(scaled) = ExpectedAtlasBytes(FontOrder[LastWritten])
              /\ out_dir[<<FontOrder[LastWritten], "data">>].data = scaled

\* C9's case: main has written all six atlases from an input that did not
\* have the expected length, and they have 864, 1344, 1536, 2160, 2400 and
\* 3456 bytes.
C9_Witness ==
    /\ fonts_pc = <<7, "data">>
    /\ Len(raw_12) # 864
    /\ \A i \in 1..6 : out_dir[<<FontOrder[i], "data">>].exists
    /\ <<Len(out_dir[<<12, "data">>].data), Len(out_dir[<<14, "data">>].data),
         Len(out_dir[<<16, "data">>].data), Len(out_dir[<<18, "data">>].data),
         Len(out_dir[<<20, "data">>].data), Len(out_dir[<<24, "data">>].data)>>
          = <<864, 1344, 1536, 2160, 2400, 3456>>
    /\ Len(scaled) = 3456


====
